---- MODULE Spec2Model ----
\* Typed property-query protocol of rdvb-os-linux: the raw batched property
\* transaction (frontend/functions.rs), the entry and payload layout
\* (frontend/property.rs), the typed get-queries (frontend/queries/get.rs),
\* the typed settings (frontend/queries/set.rs) and the error taxonomy
\* (error.rs).
EXTENDS Integers, Sequences, FiniteSets, TLC

\* ------------------------------------------------------------------ bounds

\* Number of PendingQuery handles a behaviour may create.
NumHandles == 2

\* Largest number of entries of a raw transaction whose content the kernel
\* writes independently of one another; further entries are written alike.
MaxTracked == 2

\* Largest errno a failing demux ioctl is tried with.
MaxErrno == 133

\* Largest number of bytes a driver stores into the buffer of a decoded
\* DTV_ENUM_DELSYS payload.
MaxSystems == 3

\* ------------------------------------------------------- program constants

DTV_IOCTL_MAX_MSGS == 64

DTV_UNDEFINED == 0
DTV_TUNE == 1
DTV_CLEAR == 2
DTV_FREQUENCY == 3
DTV_MODULATION == 4
DTV_BANDWIDTH_HZ == 5
DTV_INVERSION == 6
DTV_SYMBOL_RATE == 8
DTV_INNER_FEC == 9
DTV_DELIVERY_SYSTEM == 17
DTV_CODE_RATE_HP == 36
DTV_CODE_RATE_LP == 37
DTV_GUARD_INTERVAL == 38
DTV_ENUM_DELSYS == 44
DTV_STAT_SIGNAL_STRENGTH == 62
DTV_STAT_TOTAL_BLOCK_COUNT == 69

FE_SCALE_NOT_AVAILABLE == 0
FE_SCALE_DECIBEL == 1
FE_SCALE_RELATIVE == 2
FE_SCALE_COUNTER == 3

\* Errno::EBUSY and Errno::EINVAL
EBUSY == 16
EINVAL == 22

\* Largest discriminant of FeModulation (APSK_64_L) and of FeDeliverySystem
\* (DVBC2).
FeModulationMax == 20
FeDeliverySystemMax == 19
\* Largest discriminant of FeSpectralInversion (INVERSION_AUTO), of
\* FeGuardInterval (GUARD_INTERVAL_1_64), of FeTransmitMode
\* (TRANSMISSION_MODE_C3780) and of FeCodeRate (FEC_7_15).
FeSpectralInversionMax == 2
FeGuardIntervalMax == 11
FeTransmitModeMax == 8
FeCodeRateMax == 32

\* Size in bytes of DtvPropertyUnion: its largest member is DtvPropertyABuffer
\* (32 data bytes, a u32 length, three reserved u32, one pointer).
UnionSize == 56
\* Length of DtvPropertyABuffer.data, and the offset of DtvPropertyABuffer.len
\* that follows it.
BufferDataLen == 32
BufferLenOffset == 32
\* Size of one packed DtvStats (u8 scale + 8-byte value).
StatSize == 9

\* A byte that no one has written: a union built from one member leaves the
\* bytes of the larger members uninitialized.
Uninit == -1

\* ---------------------------------------------------------------- payload

UnionOffsets == 0..(UnionSize - 1)

\* A u32 is kept as its four little-endian bytes, a 64-bit sample as its eight.
Zero32 == <<0, 0, 0, 0>>

\* `n as u32` for 0 <= n < 2^31, as little-endian bytes.
LE32(n) ==
    <<n % 256, (n \div 256) % 256, (n \div 65536) % 256, (n \div 16777216) % 256>>

\* DtvPropertyUnion { data }: the scalar member over bytes 0..3, the rest of
\* the union untouched.
UnionOfData(data) ==
    [i \in UnionOffsets |-> IF i < 4 THEN data[i + 1] ELSE Uninit]

\* u.data
UnionData(u) == <<u[0], u[1], u[2], u[3]>>

\* u.st.len, u.st.stat[k].scale, u.st.stat[k].value (packed layout)
StLen(u) == u[0]
StScale(u, k) == u[1 + StatSize * k]
StValue(u, k) == [j \in 1..8 |-> u[1 + StatSize * k + j]]

\* u.buffer.data[i], u.buffer.len
BufferData(u, i) == u[i]
BufferLen(u) == <<u[BufferLenOffset], u[BufferLenOffset + 1],
                  u[BufferLenOffset + 2], u[BufferLenOffset + 3]>>

\* Bytes `w` (a function from offsets to bytes) written over the union `u`.
Overlay(u, w) == [i \in UnionOffsets |-> IF i \in DOMAIN w THEN w[i] ELSE u[i]]

\* ------------------------------------------------------------ DtvProperty

\* Faulty variant of new_data: the body of new_empty, the payload left 0.
new_data_zero(cmd, data) ==
    [cmd |-> cmd, reserved |-> <<0, 0, 0>>, u |-> UnionOfData(Zero32), result |-> 0]

new_data(cmd, data) ==
    [cmd |-> cmd, reserved |-> <<0, 0, 0>>, u |-> UnionOfData(data), result |-> 0]

\* DtvPropertyUnion { data: 0 }
ZeroDataUnion == UnionOfData(Zero32)

new_empty(cmd) ==
    [cmd |-> cmd, reserved |-> <<0, 0, 0>>, u |-> ZeroDataUnion, result |-> 0]

\* --------------------------------------------------------------- settings

\* SetPropertyQuery::property of Tune, Clear and set::Frequency.
Tune_property == new_empty(DTV_TUNE)
Clear_property == new_empty(DTV_CLEAR)
set_Frequency_property(frequency) == new_data(DTV_FREQUENCY, frequency)

\* `self.0 as u32` of a fieldless enum: its discriminant.
as_u32(discriminant) == LE32(discriminant)

\* BandwidthHz::value
BandwidthHz_value(self) ==
    CASE self = "_1_172MHz" -> 1712000
      [] self = "_5MHz" -> 5000000
      [] self = "_6MHz" -> 6000000
      [] self = "_7MHz" -> 7000000
      [] self = "_8MHz" -> 8000000
      [] self = "_10MHz" -> 10000000

\* The types implementing SetPropertyQuery.
SettingTypes ==
    {"Tune", "Clear", "Frequency", "Modulation", "BandwidthHz", "Inversion",
     "InnerFec", "DeliverySystem", "CodeRateHp", "CodeRateLp", "GuardInterval"}

\* SetPropertyQuery::property of a setting of type S holding `value`.
SetPropertyQuery_property(S, value) ==
    CASE S = "Tune" -> Tune_property
      [] S = "Clear" -> Clear_property
      [] S = "Frequency" -> set_Frequency_property(value)
      [] S = "Modulation" -> new_data(DTV_MODULATION, as_u32(value))
      [] S = "BandwidthHz" -> new_data(DTV_BANDWIDTH_HZ, LE32(BandwidthHz_value(value)))
      [] S = "Inversion" -> new_data(DTV_INVERSION, as_u32(value))
      [] S = "InnerFec" -> new_data(DTV_INNER_FEC, as_u32(value))
      [] S = "DeliverySystem" -> new_data(DTV_DELIVERY_SYSTEM, as_u32(value))
      [] S = "CodeRateHp" -> new_data(DTV_CODE_RATE_HP, as_u32(value))
      [] S = "CodeRateLp" -> new_data(DTV_CODE_RATE_LP, as_u32(value))
      [] S = "GuardInterval" -> new_data(DTV_GUARD_INTERVAL, as_u32(value))

\* --------------------------------------------------------------- commands

QueryTypes ==
    {"EnumerateDeliverySystems", "Frequency", "Modulation", "SymbolRate",
     "SignalStrength", "TotalBlockCount"}

\* PropertyQuery::associated_command of each query type.
associated_command(T) ==
    CASE T = "EnumerateDeliverySystems" -> DTV_ENUM_DELSYS
      [] T = "Frequency" -> DTV_FREQUENCY
      [] T = "Modulation" -> DTV_MODULATION
      [] T = "SymbolRate" -> DTV_SYMBOL_RATE
      [] T = "SignalStrength" -> DTV_STAT_SIGNAL_STRENGTH
      [] T = "TotalBlockCount" -> DTV_STAT_TOTAL_BLOCK_COUNT

\* --------------------------------------------------------------- decoding

\* A panic of the decoding thread (unwrap, expect, assert_eq!, panic!, an
\* index out of bounds).
Panic == [kind |-> "panic"]

Decoded(T, v) == [kind |-> "value", type |-> T, v |-> v]

\* Option<_> of the decoded statistics.
NoneValue == [some |-> FALSE]
SomeValue(v) == [some |-> TRUE, v |-> v]

\* TryFrom<u8> for FeCapScaleParams (derive TryFromDiscriminant): the four
\* discriminants 0..3 are accepted.
FeCapScaleParams_try_from(scale) ==
    scale \in {FE_SCALE_NOT_AVAILABLE, FE_SCALE_DECIBEL, FE_SCALE_RELATIVE,
               FE_SCALE_COUNTER}

\* TryFrom<u32> for FeModulation: the discriminants 0..20.
FeModulation_try_from(data) ==
    /\ data[2] = 0 /\ data[3] = 0 /\ data[4] = 0
    /\ data[1] \in 0..FeModulationMax

\* TryFrom<u8> for FeDeliverySystem: the discriminants 0..19.
FeDeliverySystem_try_from(byte) == byte \in 0..FeDeliverySystemMax

\* Faulty variant of StatResult::from: the arms of the two value scales
\* exchanged.
StatResult_from_swapped(scale, raw_value) ==
    CASE scale = FE_SCALE_NOT_AVAILABLE -> NoneValue
      [] scale = FE_SCALE_DECIBEL ->
            SomeValue([stat |-> "Value", value |-> [unit |-> "Relative", uvalue |-> raw_value]])
      [] scale = FE_SCALE_RELATIVE ->
            SomeValue([stat |-> "Value", value |-> [unit |-> "Decibel", svalue |-> raw_value]])
      [] scale = FE_SCALE_COUNTER ->
            SomeValue([stat |-> "Count", count |-> raw_value])

\* StatResult::from. The sample is the eight bytes of the DtvStatsValue union;
\* svalue and uvalue read the same bytes.
StatResult_from(scale, raw_value) ==
    CASE scale = FE_SCALE_NOT_AVAILABLE -> NoneValue
      [] scale = FE_SCALE_DECIBEL ->
            SomeValue([stat |-> "Value", value |-> [unit |-> "Decibel", svalue |-> raw_value]])
      [] scale = FE_SCALE_RELATIVE ->
            SomeValue([stat |-> "Value", value |-> [unit |-> "Relative", uvalue |-> raw_value]])
      [] scale = FE_SCALE_COUNTER ->
            SomeValue([stat |-> "Count", count |-> raw_value])

\* Faulty variant of BTreeSet::insert: the element pushed at the end, as
\* into a Vec.
BTreeSet_insert_push(systems, x) == Append(systems, x)

\* BTreeSet<FeDeliverySystem>::insert. The set is kept as the sequence its
\* iteration yields: ascending by discriminant (derive Ord), no element twice.
BTreeSet_insert(systems, x) ==
    IF \E k \in DOMAIN systems : systems[k] = x THEN systems
    ELSE LET below == SelectSeq(systems, LAMBDA y : y < x)
             above == SelectSeq(systems, LAMBDA y : y > x)
         IN  below \o <<x>> \o above

\* The loop of EnumerateDeliverySystems::from_property over data[0..n].
RECURSIVE InsertSystems(_, _)
InsertSystems(u, n) ==
    IF n = 0 THEN <<>>
    ELSE BTreeSet_insert(InsertSystems(u, n - 1), BufferData(u, n - 1))

\* Faulty variant of EnumerateDeliverySystems::from_property: a len above the
\* size of the array read as the size of the array.
EnumerateDeliverySystems_from_property_clamped(u) ==
    LET len == BufferLen(u)
        small == len[2] = 0 /\ len[3] = 0 /\ len[4] = 0 /\ len[1] <= BufferDataLen
        n == IF small THEN len[1] ELSE BufferDataLen
    IN  IF \A i \in 0..(n - 1) : FeDeliverySystem_try_from(BufferData(u, i))
        THEN Decoded("EnumerateDeliverySystems", InsertSystems(u, n))
        ELSE Panic

\* EnumerateDeliverySystems::from_property: the first u.buffer.len bytes of the
\* 32-byte array, each converted and unwrapped, inserted into a BTreeSet.
EnumerateDeliverySystems_from_property(u) ==
    LET len == BufferLen(u)
        small == len[2] = 0 /\ len[3] = 0 /\ len[4] = 0 /\ len[1] <= BufferDataLen
        n == len[1]
    IN  IF small /\ \A i \in 0..(n - 1) : FeDeliverySystem_try_from(BufferData(u, i))
        THEN Decoded("EnumerateDeliverySystems", InsertSystems(u, n))
        ELSE Panic

\* Faulty variant of get::Frequency::from_property: the payload read as a
\* 16-bit number.
Frequency_from_property_u16(u) ==
    Decoded("Frequency", <<UnionData(u)[1], UnionData(u)[2], 0, 0>>)

Frequency_from_property(u) == Decoded("Frequency", UnionData(u))

Modulation_from_property(u) ==
    IF FeModulation_try_from(UnionData(u))
    THEN Decoded("Modulation", UnionData(u)[1])
    ELSE Panic

SymbolRate_from_property(u) == Decoded("SymbolRate", UnionData(u))

\* Faulty variant of SignalStrength::from_property: a scale tag that is no
\* known tag read as "not available" instead of failing.
SignalStrength_from_property_lenient(u) ==
    IF StLen(u) # 1 THEN Panic
    ELSE IF ~FeCapScaleParams_try_from(StScale(u, 0))
    THEN Decoded("SignalStrength", NoneValue)
    ELSE LET res == StatResult_from(StScale(u, 0), StValue(u, 0))
         IN  IF ~res.some THEN Decoded("SignalStrength", NoneValue)
             ELSE IF res.v.stat = "Value"
                  THEN Decoded("SignalStrength", SomeValue(res.v.value))
                  ELSE Panic

\* Faulty variant of SignalStrength::from_property: the first statistic
\* decoded without the assertion on len.
SignalStrength_from_property_unchecked(u) ==
    IF ~FeCapScaleParams_try_from(StScale(u, 0)) THEN Panic
    ELSE LET res == StatResult_from(StScale(u, 0), StValue(u, 0))
         IN  IF ~res.some THEN Decoded("SignalStrength", NoneValue)
             ELSE IF res.v.stat = "Value"
                  THEN Decoded("SignalStrength", SomeValue(res.v.value))
                  ELSE Panic

SignalStrength_from_property(u) ==
    IF StLen(u) # 1 THEN Panic
    ELSE IF ~FeCapScaleParams_try_from(StScale(u, 0)) THEN Panic
    ELSE LET res == StatResult_from(StScale(u, 0), StValue(u, 0))
         IN  IF ~res.some THEN Decoded("SignalStrength", NoneValue)
             ELSE IF res.v.stat = "Value"
                  THEN Decoded("SignalStrength", SomeValue(res.v.value))
                  ELSE Panic

\* Faulty variant of TotalBlockCount::from_property: an unavailable counter
\* reported as a count of 0.
TotalBlockCount_from_property_zero(u) ==
    IF StLen(u) # 1 THEN Panic
    ELSE IF ~FeCapScaleParams_try_from(StScale(u, 0)) THEN Panic
    ELSE LET res == StatResult_from(StScale(u, 0), StValue(u, 0))
         IN  IF ~res.some
             THEN Decoded("TotalBlockCount", SomeValue(<<0, 0, 0, 0, 0, 0, 0, 0>>))
             ELSE IF res.v.stat = "Count"
                  THEN Decoded("TotalBlockCount", SomeValue(res.v.count))
                  ELSE Panic

\* Faulty variant of TotalBlockCount::from_property: a reading that is no
\* count answered with None.
TotalBlockCount_from_property_tolerant(u) ==
    IF StLen(u) # 1 THEN Panic
    ELSE IF ~FeCapScaleParams_try_from(StScale(u, 0)) THEN Panic
    ELSE LET res == StatResult_from(StScale(u, 0), StValue(u, 0))
         IN  IF ~res.some THEN Decoded("TotalBlockCount", NoneValue)
             ELSE IF res.v.stat = "Count"
                  THEN Decoded("TotalBlockCount", SomeValue(res.v.count))
                  ELSE Decoded("TotalBlockCount", NoneValue)

TotalBlockCount_from_property(u) ==
    IF StLen(u) # 1 THEN Panic
    ELSE IF ~FeCapScaleParams_try_from(StScale(u, 0)) THEN Panic
    ELSE LET res == StatResult_from(StScale(u, 0), StValue(u, 0))
         IN  IF ~res.some THEN Decoded("TotalBlockCount", NoneValue)
             ELSE IF res.v.stat = "Count"
                  THEN Decoded("TotalBlockCount", SomeValue(res.v.count))
                  ELSE Panic

\* PropertyQuery::from_property, dispatched on the query type.
from_property(T, u) ==
    CASE T = "EnumerateDeliverySystems" -> EnumerateDeliverySystems_from_property(u)
      [] T = "Frequency" -> Frequency_from_property(u)
      [] T = "Modulation" -> Modulation_from_property(u)
      [] T = "SymbolRate" -> SymbolRate_from_property(u)
      [] T = "SignalStrength" -> SignalStrength_from_property(u)
      [] T = "TotalBlockCount" -> TotalBlockCount_from_property(u)

\* --------------------------------------------------------------- ordering

\* std::cmp::Ordering
Less == "Less"
Equal == "Equal"
Greater == "Greater"

\* u64::cmp on two samples kept as little-endian bytes: decided by the most
\* significant byte in which they differ.
RECURSIVE u64_cmp_from(_, _, _)
u64_cmp_from(a, b, i) ==
    IF i = 0 THEN Equal
    ELSE IF a[i] < b[i] THEN Less
    ELSE IF a[i] > b[i] THEN Greater
    ELSE u64_cmp_from(a, b, i - 1)

u64_cmp(a, b) == u64_cmp_from(a, b, 8)

\* i64::cmp on the same bytes: the top bit is the sign.
i64_cmp(a, b) ==
    IF a[8] >= 128 /\ b[8] < 128 THEN Less
    ELSE IF a[8] < 128 /\ b[8] >= 128 THEN Greater
    ELSE u64_cmp(a, b)

\* ValueStat::Decibel(i64) and ValueStat::Relative(u64)
Decibel(svalue) == [unit |-> "Decibel", svalue |-> svalue]
Relative(uvalue) == [unit |-> "Relative", uvalue |-> uvalue]

\* Option<Ordering>
NoOrdering == [some |-> FALSE]
SomeOrdering(o) == [some |-> TRUE, ordering |-> o]

\* Faulty variant of ValueStat::partial_cmp: the relative readings compared
\* as signed numbers.
ValueStat_partial_cmp_signed(self, other) ==
    IF self.unit = "Decibel" /\ other.unit = "Decibel" THEN Panic
    ELSE IF self.unit = "Relative" /\ other.unit = "Relative"
    THEN SomeOrdering(i64_cmp(self.uvalue, other.uvalue))
    ELSE NoOrdering

\* impl PartialOrd for ValueStat: two decibel readings reach todo!(), two
\* relative readings are compared as u64, a mixed pair is unordered.
ValueStat_partial_cmp(self, other) ==
    IF self.unit = "Decibel" /\ other.unit = "Decibel" THEN Panic
    ELSE IF self.unit = "Relative" /\ other.unit = "Relative"
    THEN SomeOrdering(u64_cmp(self.uvalue, other.uvalue))
    ELSE NoOrdering

\* derive(PartialEq, Eq) for ValueStat: the same variant holding the same
\* number.
ValueStat_eq(self, other) ==
    /\ self.unit = other.unit
    /\ IF self.unit = "Decibel" THEN self.svalue = other.svalue
       ELSE self.uvalue = other.uvalue

\* derive(PartialEq, Eq) for SignalStrength(Option<ValueStat>).
SignalStrength_eq(self, other) ==
    IF self.some /\ other.some THEN ValueStat_eq(self.v, other.v)
    ELSE ~self.some /\ ~other.some

\* impl PartialOrd for SignalStrength
SignalStrength_partial_cmp(self, other) ==
    IF ~self.some /\ ~other.some THEN NoOrdering
    ELSE IF ~self.some THEN SomeOrdering(Less)
    ELSE IF ~other.some THEN SomeOrdering(Greater)
    ELSE ValueStat_partial_cmp(self.v, other.v)

\* ----------------------------------------------------------------- errors

\* DtvError
NotRan == [error |-> "NotRan"]
Reported(code) == [error |-> "Reported", code |-> code]

\* PropertyError
TooManyParameters == [error |-> "TooManyParameters"]
GetProperty(errno) == [error |-> "GetProperty", errno |-> errno]
SetProperty(errno) == [error |-> "SetProperty", errno |-> errno]

Ok(v) == [kind |-> "Ok", value |-> v]
Err(e) == [kind |-> "Err", err |-> e]
Unit == <<>>

\* ----------------------------------------------------------- PendingQuery

\* Option<DtvProperty> of PendingQuery::memory.
None == [some |-> FALSE]
Some(property) == [some |-> TRUE, property |-> property]

\* PropertyQuery::query: the memory of a new handle.
query == None

\* PendingQuery::desc: the command of T and the handle's own slot.
desc(T, h) == [command |-> associated_command(T), property |-> h]

\* Faulty variants of retrieve, each a slip the claims below must detect.
\* An empty slot decoded as a zeroed entry instead of being refused.
retrieve_default(T, memory) ==
    LET property == IF memory.some THEN memory.property
                    ELSE new_empty(associated_command(T))
        v == from_property(T, property.u)
    IN  IF property.result < 0 THEN Err(Reported(property.result))
        ELSE IF v = Panic THEN Panic ELSE Ok(v)

\* The payload decoded before the per-entry result is looked at.
retrieve_decode_first(T, memory) ==
    IF ~memory.some THEN Err(NotRan)
    ELSE LET v == from_property(T, memory.property.u)
         IN  IF v = Panic THEN Panic
             ELSE IF memory.property.result < 0
                  THEN Err(Reported(memory.property.result))
                  ELSE Ok(v)

\* Every nonzero result taken for a failure (result != 0).
retrieve_nonzero_fails(T, memory) ==
    IF ~memory.some THEN Err(NotRan)
    ELSE IF memory.property.result # 0 THEN Err(Reported(memory.property.result))
    ELSE LET v == from_property(T, memory.property.u)
         IN  IF v = Panic THEN Panic ELSE Ok(v)

\* A zero result taken for a failure (result <= 0).
retrieve_zero_fails(T, memory) ==
    IF ~memory.some THEN Err(NotRan)
    ELSE IF memory.property.result <= 0 THEN Err(Reported(memory.property.result))
    ELSE LET v == from_property(T, memory.property.u)
         IN  IF v = Panic THEN Panic ELSE Ok(v)

\* PendingQuery::retrieve on a handle of type T whose slot is `memory`.
retrieve(T, memory) ==
    IF ~memory.some THEN Err(NotRan)
    ELSE IF memory.property.result < 0 THEN Err(Reported(memory.property.result))
    ELSE LET v == from_property(T, memory.property.u)
         IN  IF v = Panic THEN Panic ELSE Ok(v)

\* ------------------------------------------------------------- the kernel

\* The bytes a driver stores for a scalar, a statistics and a buffer payload.
DataBytes(data) == [i \in 0..3 |-> data[i + 1]]

StatsBytes(len, scale, value) ==
    [i \in 0..(4 * StatSize) |->
        IF i = 0 THEN len
        ELSE IF i = 1 THEN scale
        ELSE IF i \in 2..StatSize THEN value[i - 1]
        ELSE 0]

BufferBytes(data) ==
    [i \in (0..(Len(data) - 1)) \cup (BufferLenOffset..(BufferLenOffset + 3)) |->
        IF i < Len(data) THEN data[i + 1] ELSE LE32(Len(data))[i - BufferLenOffset + 1]]

\* The commands of the model.
Commands ==
    {DTV_UNDEFINED, DTV_TUNE, DTV_CLEAR, DTV_FREQUENCY, DTV_MODULATION,
     DTV_SYMBOL_RATE, DTV_ENUM_DELSYS, DTV_STAT_SIGNAL_STRENGTH,
     DTV_STAT_TOTAL_BLOCK_COUNT}

\* Payloads the driver may store for each command, in a fixed order.
KernelPayloads ==
    [cmd \in Commands |->
        CASE cmd = DTV_FREQUENCY -> <<DataBytes(LE32(474000000))>>
          [] cmd = DTV_SYMBOL_RATE -> <<DataBytes(<<0, 0, 0, 128>>)>>
          [] cmd = DTV_MODULATION ->
                <<DataBytes(LE32(3)), DataBytes(LE32(FeModulationMax + 1))>>
          [] cmd = DTV_ENUM_DELSYS -> <<BufferBytes(<<5, 3, 4, 3>>)>>
          [] cmd = DTV_STAT_SIGNAL_STRENGTH ->
                <<StatsBytes(1, FE_SCALE_RELATIVE, <<255, 255, 0, 0, 0, 0, 0, 0>>),
                  StatsBytes(1, FE_SCALE_COUNTER, <<7, 0, 0, 0, 0, 0, 0, 0>>)>>
          [] cmd = DTV_STAT_TOTAL_BLOCK_COUNT ->
                <<StatsBytes(1, FE_SCALE_COUNTER, <<7, 0, 0, 0, 0, 0, 0, 0>>)>>
          [] OTHER -> <<DataBytes(Zero32)>>]

\* Per-entry results the driver may store: two failures, zero, a positive.
KernelResults == {-22, -1, 0, 1}

\* errno values of a failing ioctl (EIO, EBUSY, EINVAL).
Errnos == {5, 16, 22}

\* What the driver stores into an entry of command cmd: one of the payloads
\* of the command, named by its place in KernelPayloads[cmd], and a result,
\* the one independent of the other.
KernelWrites(cmd) ==
    {[payload |-> k, result |-> r] :
        k \in DOMAIN KernelPayloads[cmd], r \in KernelResults}

RECURSIVE WriteSeqs(_, _)
WriteSeqs(props, n) ==
    IF n = 0 THEN {<<>>}
    ELSE {Append(ws, w) : ws \in WriteSeqs(props, n - 1), w \in KernelWrites(props[n].cmd)}

Min(a, b) == IF a < b THEN a ELSE b

RestWrites == {[payload |-> 1, result |-> r] : r \in {-1, 0}}

\* The answers of the driver to a transaction over props, were an ioctl
\* issued: errno (0 for success) and, per entry, what the driver stores. The
\* first `tracked` entries are written independently (writes[i]), the entries
\* after them alike (rest).
Answers(props, tracked, errnos) ==
    {[errno |-> e, writes |-> <<>>, rest |-> CHOOSE w \in RestWrites : TRUE] : e \in errnos}
    \cup {[errno |-> 0, writes |-> ws, rest |-> rest] :
            ws \in WriteSeqs(props, Min(Len(props), tracked)),
            rest \in IF Len(props) > tracked THEN RestWrites
                     ELSE {CHOOSE w \in RestWrites : TRUE}}

KernelWrite(answer, i) ==
    IF i <= Len(answer.writes) THEN answer.writes[i] ELSE answer.rest

\* The payload bytes the driver stores into entry i, of command cmd.
KernelBytes(answer, i, cmd) == KernelPayloads[cmd][KernelWrite(answer, i).payload]

\* FE_GET_PROPERTY on DtvProperties {num, props}: on success the first num
\* entries have payload and result overwritten in place; on failure the
\* array is left as it was.
fe_get_property(properties, answer) ==
    IF answer.errno # 0
    THEN [errno |-> answer.errno, props |-> properties.props]
    ELSE [errno |-> 0,
          props |-> [i \in DOMAIN properties.props |->
                        IF i <= properties.num
                        THEN [properties.props[i] EXCEPT
                                !.u = Overlay(@, KernelBytes(answer, i, properties.props[i].cmd)),
                                !.result = KernelWrite(answer, i).result]
                        ELSE properties.props[i]]]

\* FE_SET_PROPERTY: the payload travels to the driver only; the per-entry
\* result is stored back.
fe_set_property(properties, answer) ==
    IF answer.errno # 0
    THEN [errno |-> answer.errno, props |-> properties.props]
    ELSE [errno |-> 0,
          props |-> [i \in DOMAIN properties.props |->
                        IF i <= properties.num
                        THEN [properties.props[i] EXCEPT
                                !.result = KernelWrite(answer, i).result]
                        ELSE properties.props[i]]]

\* ------------------------------------------------ get_set_properties_raw

\* One ioctl as seen by the device: which request, and DtvProperties.num.
Ioctl(set, num) ==
    [request |-> IF set THEN "FE_SET_PROPERTY" ELSE "FE_GET_PROPERTY", num |-> num]

\* The two ioctls behind one dispatch on `set`.
raw_ioctl(set, count, props, answer) ==
    IF set THEN fe_set_property([num |-> count, props |-> props], answer)
    ELSE fe_get_property([num |-> count, props |-> props], answer)

\* Faulty variants of get_set_properties_raw.
\* No early return for an empty transaction.
raw_no_zero_check(set, count, props, answer) ==
    IF count > DTV_IOCTL_MAX_MSGS
    THEN [ret |-> Err(TooManyParameters), issued |-> <<>>, props |-> props]
    ELSE LET r == raw_ioctl(set, count, props, answer)
         IN  [ret |-> IF r.errno # 0
                      THEN Err(IF set THEN SetProperty(r.errno) ELSE GetProperty(r.errno))
                      ELSE Ok(Unit),
              issued |-> <<Ioctl(set, count)>>,
              props |-> r.props]

\* The bound off by one upwards: 65 entries let through.
raw_bound_above(set, count, props, answer) ==
    IF count = 0
    THEN [ret |-> Ok(Unit), issued |-> <<>>, props |-> props]
    ELSE IF count > DTV_IOCTL_MAX_MSGS + 1
    THEN [ret |-> Err(TooManyParameters), issued |-> <<>>, props |-> props]
    ELSE LET r == raw_ioctl(set, count, props, answer)
         IN  [ret |-> IF r.errno # 0
                      THEN Err(IF set THEN SetProperty(r.errno) ELSE GetProperty(r.errno))
                      ELSE Ok(Unit),
              issued |-> <<Ioctl(set, count)>>,
              props |-> r.props]

\* The bound off by one downwards: 64 entries refused (count >= 64).
raw_bound_below(set, count, props, answer) ==
    IF count = 0
    THEN [ret |-> Ok(Unit), issued |-> <<>>, props |-> props]
    ELSE IF count >= DTV_IOCTL_MAX_MSGS
    THEN [ret |-> Err(TooManyParameters), issued |-> <<>>, props |-> props]
    ELSE LET r == raw_ioctl(set, count, props, answer)
         IN  [ret |-> IF r.errno # 0
                      THEN Err(IF set THEN SetProperty(r.errno) ELSE GetProperty(r.errno))
                      ELSE Ok(Unit),
              issued |-> <<Ioctl(set, count)>>,
              props |-> r.props]

\* Both directions mapped to GetProperty.
raw_one_error(set, count, props, answer) ==
    IF count = 0
    THEN [ret |-> Ok(Unit), issued |-> <<>>, props |-> props]
    ELSE IF count > DTV_IOCTL_MAX_MSGS
    THEN [ret |-> Err(TooManyParameters), issued |-> <<>>, props |-> props]
    ELSE LET r == raw_ioctl(set, count, props, answer)
         IN  [ret |-> IF r.errno # 0 THEN Err(GetProperty(r.errno)) ELSE Ok(Unit),
              issued |-> <<Ioctl(set, count)>>,
              props |-> r.props]

\* A failing entry turned into a failure of the whole call.
raw_entry_fails_call(set, count, props, answer) ==
    IF count = 0
    THEN [ret |-> Ok(Unit), issued |-> <<>>, props |-> props]
    ELSE IF count > DTV_IOCTL_MAX_MSGS
    THEN [ret |-> Err(TooManyParameters), issued |-> <<>>, props |-> props]
    ELSE LET r == raw_ioctl(set, count, props, answer)
             bad == {i \in 1..count : r.props[i].result < 0}
         IN  [ret |-> IF r.errno # 0
                      THEN Err(IF set THEN SetProperty(r.errno) ELSE GetProperty(r.errno))
                      ELSE IF bad # {}
                      THEN Err(GetProperty(0 - r.props[CHOOSE i \in bad : TRUE].result))
                      ELSE Ok(Unit),
              issued |-> <<Ioctl(set, count)>>,
              props |-> r.props]

\* The dispatch on `set` inverted: a GET issued as FE_SET_PROPERTY.
raw_swapped(set, count, props, answer) ==
    IF count = 0
    THEN [ret |-> Ok(Unit), issued |-> <<>>, props |-> props]
    ELSE IF count > DTV_IOCTL_MAX_MSGS
    THEN [ret |-> Err(TooManyParameters), issued |-> <<>>, props |-> props]
    ELSE LET r == raw_ioctl(~set, count, props, answer)
         IN  [ret |-> IF r.errno # 0
                      THEN Err(IF set THEN SetProperty(r.errno) ELSE GetProperty(r.errno))
                      ELSE Ok(Unit),
              issued |-> <<Ioctl(~set, count)>>,
              props |-> r.props]

\* get_set_properties_raw(fd, set, count, ptr) with `props` the array behind
\* ptr: the value returned, the ioctls issued, and the array afterwards.
get_set_properties_raw(set, count, props, answer) ==
    IF count = 0
    THEN [ret |-> Ok(Unit), issued |-> <<>>, props |-> props]
    ELSE IF count > DTV_IOCTL_MAX_MSGS
    THEN [ret |-> Err(TooManyParameters), issued |-> <<>>, props |-> props]
    ELSE LET properties == [num |-> count, props |-> props]
             r == IF set THEN fe_set_property(properties, answer)
                         ELSE fe_get_property(properties, answer)
         IN  [ret |-> IF r.errno # 0
                      THEN Err(IF set THEN SetProperty(r.errno) ELSE GetProperty(r.errno))
                      ELSE Ok(Unit),
              issued |-> <<Ioctl(set, count)>>,
              props |-> r.props]

\* ------------------------------------------------------------------ demux

\* DmxStartError
InvalidArgument == [error |-> "InvalidArgument"]
Conflicting == [error |-> "Conflicting"]
Undefined(e) == [error |-> "Undefined", errno |-> e]

\* Faulty variant: the EINVAL arm left out, as in DmxSetPesFilterError.
DmxStartError_from_no_einval(value) ==
    IF value = EBUSY THEN Conflicting ELSE Undefined(value)

\* impl From<Errno> for DmxStartError
DmxStartError_from(value) ==
    IF value = EINVAL THEN InvalidArgument
    ELSE IF value = EBUSY THEN Conflicting
    ELSE Undefined(value)

\* Faulty variant: the arms of DmxStartError copied, EINVAL named.
DmxSetPesFilterError_from_einval(value) ==
    IF value = EINVAL THEN InvalidArgument
    ELSE IF value = EBUSY THEN Conflicting
    ELSE Undefined(value)

\* impl From<Errno> for DmxSetPesFilterError
DmxSetPesFilterError_from(value) ==
    IF value = EBUSY THEN Conflicting ELSE Undefined(value)

\* The DMX_START and DMX_SET_PES_FILTER ioctls: nix returns Err(errno) when
\* the call fails (answer is the errno), Ok otherwise (answer is 0).
dmx_start(answer) == IF answer # 0 THEN Err(answer) ELSE Ok(0)
dmx_set_pes_filter(answer) == IF answer # 0 THEN Err(answer) ELSE Ok(0)

\* demux::functions::start
start(answer) ==
    LET r == dmx_start(answer)
    IN  IF r.kind = "Err" THEN Err(DmxStartError_from(r.err)) ELSE Ok(Unit)

\* demux::functions::set_pes_filter
set_pes_filter(answer) ==
    LET r == dmx_set_pes_filter(answer)
    IN  IF r.kind = "Err" THEN Err(DmxSetPesFilterError_from(r.err)) ELSE Ok(Unit)

\* ------------------------------------------------------------------ state

Handles == 1..NumHandles

\* The query types a handle may be created with: the first handle ranges over
\* every query type, the handles beside it are Frequency queries.
TypesOf(h) == IF h = 1 THEN QueryTypes ELSE {"Frequency"}

VARIABLES
    hstate,   \* handle -> "free" (not created), "live", "consumed" (retrieved)
    htype,    \* handle -> the query type T of PendingQuery<T>
    memory,   \* handle -> PendingQuery::memory
    filled,   \* handle -> a batch has written the slot (history)
    outcome,  \* handle -> what retrieve returned, NoOutcome before
    ret,      \* what the last batch's get_set_properties_raw returned
    sys,      \* how the ioctl of the last batch ended, NoOutcome if none was issued
    raw       \* a function of the library called on its own, observed

vars == <<hstate, htype, memory, filled, outcome, ret, sys, raw>>

NoOutcome == [kind |-> "none"]
NoCall == [op |-> "none"]

Init ==
    /\ hstate = [h \in Handles |-> "free"]
    /\ htype = [h \in Handles |-> "none"]
    /\ memory = [h \in Handles |-> None]
    /\ filled = [h \in Handles |-> FALSE]
    /\ outcome = [h \in Handles |-> NoOutcome]
    /\ ret = NoOutcome
    /\ sys = NoOutcome
    /\ raw = NoCall

\* A panic in retrieve ends the program.
Aborted == \E h \in Handles : outcome[h] = Panic

\* T::query()
Query(h, T) ==
    /\ ~Aborted
    /\ hstate[h] = "free"
    /\ hstate' = [hstate EXCEPT ![h] = "live"]
    /\ htype' = [htype EXCEPT ![h] = T]
    /\ memory' = [memory EXCEPT ![h] = query]
    /\ UNCHANGED <<filled, outcome, ret, sys, raw>>

\* handle.desc(), the description dropped unused: nothing is written.
Desc(h) ==
    /\ ~Aborted
    /\ hstate[h] = "live"
    /\ desc(htype[h], h).property = h
    /\ UNCHANGED vars

\* The descriptions handed to one batch: live handles, each at most once (a
\* description borrows its handle mutably), listed by increasing handle.
RECURSIVE HandleSeqs(_)
HandleSeqs(n) ==
    IF n = 0 THEN {<<>>}
    ELSE LET shorter == HandleSeqs(n - 1)
         IN  shorter \cup
             IF hstate[n] = "live" THEN {Append(hs, n) : hs \in shorter} ELSE {}

Distinct(hs) == \A i, j \in DOMAIN hs : i # j => hs[i] # hs[j]

\* The transaction array of a GET batch: one empty entry per description.
BatchProps(hs) == [i \in DOMAIN hs |-> new_empty(desc(htype[hs[i]], hs[i]).command)]

\* A GET batch over the described handles hs: one entry per description,
\* one get_set_properties_raw call, and on success each entry stored into
\* the slot its description points to.
GetProperties(hs, answer) ==
    LET props == BatchProps(hs)
        r == get_set_properties_raw(FALSE, Len(hs), props, answer)
    IN  /\ ~Aborted
        /\ Distinct(hs)
        /\ IF r.ret = Ok(Unit)
           THEN /\ memory' = [h \in Handles |->
                                IF \E i \in DOMAIN hs : hs[i] = h
                                THEN Some(r.props[CHOOSE i \in DOMAIN hs : hs[i] = h])
                                ELSE memory[h]]
                /\ filled' = [h \in Handles |->
                                filled[h] \/ \E i \in DOMAIN hs : hs[i] = h]
           ELSE UNCHANGED <<memory, filled>>
        /\ ret' = r.ret
        /\ sys' = IF r.issued = <<>> THEN NoOutcome
                  ELSE [kind |-> "ioctl", errno |-> answer.errno]
        /\ UNCHANGED <<hstate, htype, outcome, raw>>

\* Faulty variant of Retrieve: retrieve(&self), the handle still usable.
RetrieveBorrowing(h) ==
    /\ ~Aborted
    /\ hstate[h] = "live"
    /\ outcome' = [outcome EXCEPT ![h] = retrieve(htype[h], memory[h])]
    /\ UNCHANGED <<hstate, htype, memory, filled, ret, sys, raw>>

\* handle.retrieve(): the handle is moved into the call.
Retrieve(h) ==
    /\ ~Aborted
    /\ hstate[h] = "live"
    /\ outcome' = [outcome EXCEPT ![h] = retrieve(htype[h], memory[h])]
    /\ hstate' = [hstate EXCEPT ![h] = "consumed"]
    /\ UNCHANGED <<htype, memory, filled, ret, sys, raw>>

Next ==
    \/ \E h \in Handles : \E T \in TypesOf(h) : Query(h, T)
    \/ \E h \in Handles : Desc(h)
    \/ \E hs \in HandleSeqs(NumHandles) :
         \E answer \in Answers(BatchProps(hs), Len(hs), {5}) : GetProperties(hs, answer)
    \/ \E h \in Handles : Retrieve(h)

Spec == Init /\ [][Next]_vars

\* ------------------------------------------- the raw transaction, directly

\* Entry counts of the direct calls: none, a few, and the counts around
\* DTV_IOCTL_MAX_MSGS.
RawCounts ==
    {0, 1, 2, DTV_IOCTL_MAX_MSGS - 1, DTV_IOCTL_MAX_MSGS,
     DTV_IOCTL_MAX_MSGS + 1, DTV_IOCTL_MAX_MSGS + 2}

\* The array a caller passes with `count`: settings ending in Tune for a SET,
\* empty query entries for a GET.
RawProps(set, count) ==
    [i \in 1..count |->
        IF set
        THEN IF i = count THEN Tune_property
             ELSE set_Frequency_property(LE32(474000000))
        ELSE new_empty(IF i = 1 THEN DTV_STAT_SIGNAL_STRENGTH ELSE DTV_FREQUENCY)]

\* get_set_properties_raw(fd, set, count, ptr) called on its own, once per
\* behaviour; the call, the driver's answer and the outcome are kept for
\* inspection.
RawCall(set, count, answer) ==
    LET props == RawProps(set, count)
        r == get_set_properties_raw(set, count, props, answer)
    IN  /\ raw = NoCall
        /\ raw' = [op |-> "raw", set |-> set, count |-> count, answer |-> answer,
                   ret |-> r.ret, issued |-> r.issued,
                   before |-> props, after |-> r.props]
        /\ UNCHANGED <<hstate, htype, memory, filled, outcome, ret, sys>>

NextRaw ==
    \E set \in BOOLEAN, count \in RawCounts :
        \E answer \in Answers(RawProps(set, count), MaxTracked, Errnos) :
            RawCall(set, count, answer)

SpecRaw == Init /\ [][NextRaw]_vars

\* ------------------------------------------------------ the demux, directly

\* What the demux ioctls answer: success, or one of the errno values.
DemuxAnswers == 0..MaxErrno

\* start(fd) called on its own.
Start(answer) ==
    /\ raw = NoCall
    /\ raw' = [op |-> "start", errno |-> answer, ret |-> start(answer)]
    /\ UNCHANGED <<hstate, htype, memory, filled, outcome, ret, sys>>

\* set_pes_filter(fd, params) called on its own.
SetPesFilter(answer) ==
    /\ raw = NoCall
    /\ raw' = [op |-> "set_pes_filter", errno |-> answer, ret |-> set_pes_filter(answer)]
    /\ UNCHANGED <<hstate, htype, memory, filled, outcome, ret, sys>>

NextDemux ==
    \/ \E answer \in DemuxAnswers : Start(answer)
    \/ \E answer \in DemuxAnswers : SetPesFilter(answer)

SpecDemux == Init /\ [][NextDemux]_vars

\* --------------------------------------------------- the decoders, directly

\* 64-bit samples, as little-endian bytes: 0, 7, 0xffff, -1000 as i64,
\* 2^63 and 2^64 - 1.
Samples ==
    {<<0, 0, 0, 0, 0, 0, 0, 0>>, <<7, 0, 0, 0, 0, 0, 0, 0>>,
     <<255, 255, 0, 0, 0, 0, 0, 0>>, <<24, 252, 255, 255, 255, 255, 255, 255>>,
     <<0, 0, 0, 0, 0, 0, 0, 128>>, <<255, 255, 255, 255, 255, 255, 255, 255>>}

\* The four scale tags, and bytes that are no tag.
ScaleTags ==
    {FE_SCALE_NOT_AVAILABLE, FE_SCALE_DECIBEL, FE_SCALE_RELATIVE, FE_SCALE_COUNTER}
ScaleBytes == ScaleTags \cup {FE_SCALE_COUNTER + 1, 255}

RECURSIVE SeqsUpTo(_, _)
SeqsUpTo(S, n) ==
    IF n = 0 THEN {<<>>}
    ELSE LET shorter == SeqsUpTo(S, n - 1)
         IN  shorter \cup {Append(q, x) : q \in {r \in shorter : Len(r) = n - 1}, x \in S}

\* A buffer payload whose len need not cover all the bytes stored.
BufferPayload(data, len) ==
    [i \in (0..(Len(data) - 1)) \cup (BufferLenOffset..(BufferLenOffset + 3)) |->
        IF i < Len(data) THEN data[i + 1] ELSE LE32(len)[i - BufferLenOffset + 1]]

\* Delivery systems a driver may list (DVBS, DVBT, DSS), and a byte that is
\* no delivery system.
SystemBytes == {3, 4, 5, FeDeliverySystemMax + 1}

\* The values of the u8 len of a statistics payload: none, one, several up
\* to the four the array holds, and more than it holds.
StatLens == {0, 1, 2, 3, 4, 5, 255}

\* A buffer whose 32 bytes all name a delivery system, and the lengths
\* stored with it: the whole array, one more, and 256 (low byte 0).
FullBuffer == [i \in 1..BufferDataLen |-> (i - 1) % (FeDeliverySystemMax + 1)]
FullLens == {BufferDataLen, BufferDataLen + 1, 256}

\* The payloads handed to the decoder of T: an empty entry of T's command
\* after the driver stored its bytes.
DecodePayloads(T) ==
    LET stored ==
          CASE T \in {"SignalStrength", "TotalBlockCount"} ->
                  {StatsBytes(len, scale, value) :
                      len \in StatLens, scale \in ScaleBytes, value \in Samples}
            [] T = "EnumerateDeliverySystems" ->
                  {BufferPayload(data, len) :
                      data \in SeqsUpTo(SystemBytes, MaxSystems), len \in 0..MaxSystems}
                  \cup {BufferBytes(<<5, 3, 4, 3>>)}
                  \cup {BufferPayload(FullBuffer, len) : len \in FullLens}
            [] T = "Modulation" ->
                  {DataBytes(LE32(m)) : m \in {0, 3, FeModulationMax, FeModulationMax + 1}}
            [] OTHER ->
                  {DataBytes(LE32(474000000)), DataBytes(<<0, 0, 0, 128>>)}
    IN  {Overlay(new_empty(associated_command(T)).u, w) : w \in stored}

\* StatResult::from applied to a scale tag and a sample.
StatFrom(scale, raw_value) ==
    /\ raw = NoCall
    /\ raw' = [op |-> "StatResult::from", scale |-> scale, raw_value |-> raw_value,
               ret |-> StatResult_from(scale, raw_value)]
    /\ UNCHANGED <<hstate, htype, memory, filled, outcome, ret, sys>>

\* T::from_property applied to a payload.
FromProperty(T, u) ==
    /\ raw = NoCall
    /\ raw' = [op |-> "from_property", type |-> T, u |-> u, ret |-> from_property(T, u)]
    /\ UNCHANGED <<hstate, htype, memory, filled, outcome, ret, sys>>

\* The readings partial_cmp is applied to.
ValueStats == {Decibel(v) : v \in Samples} \cup {Relative(v) : v \in Samples}

\* a.partial_cmp(&b) on two ValueStat.
PartialCmp(a, b) ==
    /\ raw = NoCall
    /\ raw' = [op |-> "partial_cmp", self |-> a, other |-> b,
               ret |-> ValueStat_partial_cmp(a, b)]
    /\ UNCHANGED <<hstate, htype, memory, filled, outcome, ret, sys>>

\* The SignalStrength values compared: unavailable, or one of the readings.
SignalStrengths == {NoneValue} \cup {SomeValue(v) : v \in ValueStats}

\* a == b and a.partial_cmp(&b) on two SignalStrength.
SignalCmp(a, b) ==
    /\ raw = NoCall
    /\ raw' = [op |-> "SignalStrength::partial_cmp", self |-> a, other |-> b,
               eq |-> SignalStrength_eq(a, b),
               ret |-> SignalStrength_partial_cmp(a, b)]
    /\ UNCHANGED <<hstate, htype, memory, filled, outcome, ret, sys>>

NextDecode ==
    \/ \E scale \in ScaleTags, raw_value \in Samples : StatFrom(scale, raw_value)
    \/ \E T \in QueryTypes : \E u \in DecodePayloads(T) : FromProperty(T, u)
    \/ \E a, b \in ValueStats : PartialCmp(a, b)
    \/ \E a, b \in SignalStrengths : SignalCmp(a, b)

SpecDecode == Init /\ [][NextDecode]_vars

\* --------------------------------------------------- the settings, directly

\* The bytes frequencies are made of, and the frequencies tried: every u32
\* of such bytes, and 474 MHz.
FrequencyBytes == {0, 1, 128, 255}
Frequencies ==
    {<<b0, b1, b2, b3>> : b0 \in FrequencyBytes, b1 \in FrequencyBytes,
                          b2 \in FrequencyBytes, b3 \in FrequencyBytes}
    \cup {LE32(474000000)}

BandwidthHzs == {"_1_172MHz", "_5MHz", "_6MHz", "_7MHz", "_8MHz", "_10MHz"}

\* The values a setting of type S may hold.
SettingValues(S) ==
    CASE S \in {"Tune", "Clear"} -> {<<>>}
      [] S = "Frequency" -> Frequencies
      [] S = "Modulation" -> 0..FeModulationMax
      [] S = "BandwidthHz" -> BandwidthHzs
      [] S = "Inversion" -> 0..FeSpectralInversionMax
      [] S = "InnerFec" -> 0..FeCodeRateMax
      [] S = "DeliverySystem" -> 0..FeDeliverySystemMax
      [] S \in {"CodeRateHp", "CodeRateLp"} -> 0..FeTransmitModeMax
      [] S = "GuardInterval" -> 0..FeGuardIntervalMax

\* setting.property() called on its own.
Property(S, value) ==
    /\ raw = NoCall
    /\ raw' = [op |-> "property", type |-> S, value |-> value, ret |-> SetPropertyQuery_property(S, value)]
    /\ UNCHANGED <<hstate, htype, memory, filled, outcome, ret, sys>>

\* set::Frequency::new(frequency).property(), and its payload handed to
\* get::Frequency::from_property.
RoundTrip(frequency) ==
    LET entry == SetPropertyQuery_property("Frequency", frequency)
    IN  /\ raw = NoCall
        /\ raw' = [op |-> "round_trip", frequency |-> frequency, entry |-> entry,
                   command |-> associated_command("Frequency"),
                   ret |-> from_property("Frequency", entry.u)]
        /\ UNCHANGED <<hstate, htype, memory, filled, outcome, ret, sys>>

NextSet ==
    \/ \E S \in SettingTypes : \E value \in SettingValues(S) : Property(S, value)
    \/ \E frequency \in Frequencies : RoundTrip(frequency)

SpecSet == Init /\ [][NextSet]_vars

\* ------------------------------------------------ the descriptions, observed

\* How many times in a row one handle is described.
MaxDescs == 2

\* The query types of the described handles.
DescTypes == {"Frequency", "SignalStrength"}

\* How many times in a row the handle h has been described so far.
DescTimes(h) == IF raw.op = "desc" /\ raw.handle = h THEN raw.times ELSE 0

\* Faulty variant of DescCall: the slot taken out of the handle
\* (self.memory.take()) instead of borrowed.
DescCallTaking(h) ==
    /\ ~Aborted
    /\ hstate[h] = "live"
    /\ DescTimes(h) < MaxDescs
    /\ raw' = [op |-> "desc", handle |-> h, times |-> DescTimes(h) + 1,
               d |-> desc(htype[h], h), before |-> memory[h]]
    /\ memory' = [memory EXCEPT ![h] = None]
    /\ UNCHANGED <<hstate, htype, filled, outcome, ret, sys>>

\* handle.desc(), the description looked at and dropped: a QueryDescription
\* is built from T::associated_command() and a borrow of self.memory;
\* nothing is written.
DescCall(h) ==
    /\ ~Aborted
    /\ hstate[h] = "live"
    /\ DescTimes(h) < MaxDescs
    /\ raw' = [op |-> "desc", handle |-> h, times |-> DescTimes(h) + 1,
               d |-> desc(htype[h], h), before |-> memory[h]]
    /\ UNCHANGED <<hstate, htype, memory, filled, outcome, ret, sys>>

\* Handles created, described any number of times, and submitted one at a
\* time.
NextDesc ==
    \/ \E h \in Handles : \E T \in TypesOf(h) \cap DescTypes : Query(h, T)
    \/ \E h \in Handles : DescCall(h)
    \/ \E h \in Handles :
         /\ hstate[h] = "live"
         /\ \E answer \in Answers(BatchProps(<<h>>), 1, {5}) : GetProperties(<<h>>, answer)

SpecDesc == Init /\ [][NextDesc]_vars

\* ------------------------------------------- two callers, one buffer

\* Two callers (threads), each with a query of its own, running one GET
\* transaction each over the same one-entry transaction buffer.
Callers == {1, 2}
CallerType(c) == IF c = 1 THEN "SignalStrength" ELSE "Frequency"

\* The callers set up: their handles created, the buffer not yet written.
\* `serialised` tells whether the callers take turns (one transaction at a
\* time) or run unordered. raw.entryby and raw.databy remember whose entry
\* the buffer holds and whose ioctl wrote its payload and result last.
Share(serialised) ==
    /\ raw = NoCall
    /\ \A c \in Callers : hstate[c] = "free"
    /\ hstate' = [h \in Handles |-> IF h \in Callers THEN "live" ELSE hstate[h]]
    /\ htype' = [h \in Handles |-> IF h \in Callers THEN CallerType(h) ELSE htype[h]]
    /\ memory' = [h \in Handles |-> IF h \in Callers THEN query ELSE memory[h]]
    /\ raw' = [op |-> "shared", serialised |-> serialised,
               buf |-> <<>>, entryby |-> 0, databy |-> 0,
               pc |-> [c \in Callers |-> "idle"],
               answer |-> [c \in Callers |-> NoOutcome],
               ret |-> [c \in Callers |-> NoOutcome],
               stored |-> [c \in Callers |-> NoOutcome]]
    /\ UNCHANGED <<filled, outcome, ret, sys>>

\* Caller c is in the middle of its transaction.
Busy(c) == raw.pc[c] \in {"built", "called"}

\* Caller c writes the entry of its description into the buffer.
Build(c) ==
    /\ raw.op = "shared"
    /\ raw.pc[c] = "idle"
    /\ raw.serialised => \A d \in Callers \ {c} : ~Busy(d)
    /\ raw' = [raw EXCEPT !.buf = BatchProps(<<c>>), !.entryby = c, !.databy = 0,
                          !.pc[c] = "built"]
    /\ UNCHANGED <<hstate, htype, memory, filled, outcome, ret, sys>>

\* Caller c calls get_set_properties_raw(fd, false, 1, ptr) on the buffer as
\* it is now; the driver answers for the command it finds there.
Call(c, answer) ==
    LET r == get_set_properties_raw(FALSE, 1, raw.buf, answer)
    IN  /\ raw.op = "shared"
        /\ raw.pc[c] = "built"
        /\ raw' = [raw EXCEPT !.buf = r.props,
                              !.databy = IF r.ret = Ok(Unit) THEN c ELSE @,
                              !.answer[c] = answer, !.ret[c] = r.ret,
                              !.pc[c] = "called"]
        /\ UNCHANGED <<hstate, htype, memory, filled, outcome, ret, sys>>

\* Caller c, its call having succeeded, stores the entry the buffer holds
\* now into the slot of its handle; after a failed call it stores nothing.
Store(c) ==
    /\ raw.op = "shared"
    /\ raw.pc[c] = "called"
    /\ IF raw.ret[c] = Ok(Unit)
       THEN /\ memory' = [memory EXCEPT ![c] = Some(raw.buf[1])]
            /\ filled' = [filled EXCEPT ![c] = TRUE]
            /\ raw' = [raw EXCEPT !.pc[c] = "done",
                                  !.stored[c] = [kind |-> "stored", entryby |-> raw.entryby,
                                                 databy |-> raw.databy]]
       ELSE /\ raw' = [raw EXCEPT !.pc[c] = "done"]
            /\ UNCHANGED <<memory, filled>>
    /\ UNCHANGED <<hstate, htype, outcome, ret, sys>>

NextShared ==
    \/ \E serialised \in BOOLEAN : Share(serialised)
    \/ \E c \in Callers : Build(c)
    \/ \E c \in Callers :
         /\ raw.op = "shared" /\ raw.pc[c] = "built"
         /\ \E answer \in Answers(raw.buf, 1, {5}) : Call(c, answer)
    \/ \E c \in Callers : Store(c)

SpecShared == Init /\ [][NextShared]_vars

\* ------------------------------------------------------------------ claims

Consumed(h) == hstate[h] = "consumed"
Slot(h) == memory[h].property

\* C1: retrieve on a handle whose slot no batch has filled returns
\* Err(NotRan), whatever the query type; never a decoded or default value.
C1_NotRan ==
    \A h \in Handles :
        (Consumed(h) /\ ~filled[h]) => (~memory[h].some /\ outcome[h] = Err(NotRan))

\* A statistics query retrieved unfilled after a batch that ran without it
\* and filled the other handle.
C1_Witness ==
    \E h, k \in Handles :
        /\ Consumed(h) /\ ~filled[h] /\ htype[h] = "SignalStrength"
        /\ outcome[h] = Err(NotRan)
        /\ filled[k] /\ ret = Ok(Unit)

\* C2: a decoded value is returned only from a slot a batch filled before,
\* and a handle yields one outcome: once retrieved it stays consumed with
\* that outcome, and an outcome appears only in the step live -> consumed.
C2_Lifecycle ==
    [][\A h \in Handles :
          /\ (outcome'[h].kind = "Ok" /\ outcome[h] = NoOutcome)
                => (filled[h] /\ memory[h].some /\ hstate[h] = "live")
          /\ (outcome[h] # NoOutcome)
                => (outcome'[h] = outcome[h] /\ hstate'[h] = "consumed")
          /\ (outcome'[h] # outcome[h])
                => (hstate[h] = "live" /\ hstate'[h] = "consumed")
          /\ (hstate[h] = "consumed") => (hstate'[h] = "consumed")]_vars

C2_Witness ==
    \E h \in Handles : Consumed(h) /\ filled[h] /\ outcome[h].kind = "Ok"

\* C3: retrieve on a filled slot with a negative result returns
\* Err(Reported(code)) with code the slot's result, the payload not decoded.
C3_Reported ==
    \A h \in Handles :
        (Consumed(h) /\ memory[h].some /\ Slot(h).result < 0)
            => outcome[h] = Err(Reported(Slot(h).result))

\* A failing entry whose payload the decoder of the handle would panic on.
C3_Witness ==
    \E h \in Handles :
        /\ Consumed(h) /\ memory[h].some /\ Slot(h).result = -22
        /\ from_property(htype[h], Slot(h).u) = Panic
        /\ outcome[h] = Err(Reported(-22))

\* C4: the outcome of a handle follows from its own slot alone: beside a
\* handle whose entry has result -1 and yields Reported(-1), a handle whose
\* entry has a result >= 0 yields its decoded value, and the other way round.
C4_Independent ==
    \A h, k \in Handles :
        (h # k /\ Consumed(h) /\ Consumed(k) /\ memory[h].some /\ memory[k].some
           /\ Slot(h).result = -1 /\ Slot(k).result >= 0)
            => /\ outcome[h] = Err(Reported(-1))
               /\ outcome[k] = LET v == from_property(htype[k], Slot(k).u)
                               IN  IF v = Panic THEN Panic ELSE Ok(v)

C4_Witness ==
    \E h, k \in Handles :
        /\ h # k /\ Consumed(h) /\ Consumed(k)
        /\ memory[h].some /\ Slot(h).result = -1 /\ outcome[h] = Err(Reported(-1))
        /\ memory[k].some /\ Slot(k).result = 0 /\ outcome[k].kind = "Ok"

\* C5: retrieve on a filled slot with result >= 0 returns the value the
\* decoder of T gives for the payload, the slot being the entry of T's
\* command; only a strictly negative result is a failure.
C5_Decoded ==
    \A h \in Handles :
        (Consumed(h) /\ memory[h].some /\ Slot(h).result >= 0)
            => /\ Slot(h).cmd = associated_command(htype[h])
               /\ outcome[h] = LET v == from_property(htype[h], Slot(h).u)
                               IN  IF v = Panic THEN Panic ELSE Ok(v)

\* A result of zero: the frequency the driver stored comes back.
C5_Witness ==
    \E h \in Handles :
        /\ Consumed(h) /\ memory[h].some /\ Slot(h).result = 0
        /\ htype[h] = "Frequency" /\ outcome[h].kind = "Ok"
        /\ outcome[h].value.v = LE32(474000000)

Called == raw.op = "raw"

\* C6: get_set_properties_raw with count = 0 returns Ok(()) and issues no
\* ioctl, in either direction.
C6_EmptyNoop ==
    (Called /\ raw.count = 0)
        => (raw.ret = Ok(Unit) /\ raw.issued = <<>> /\ raw.after = raw.before)

\* An empty SET over a driver that would have failed the ioctl.
C6_Witness ==
    Called /\ raw.count = 0 /\ raw.set /\ raw.answer.errno # 0 /\ raw.ret = Ok(Unit)

\* C7: with count > DTV_IOCTL_MAX_MSGS the call returns
\* Err(TooManyParameters), issues no ioctl and leaves every entry unchanged.
C7_TooMany ==
    (Called /\ raw.count > DTV_IOCTL_MAX_MSGS)
        => /\ raw.ret = Err(TooManyParameters)
           /\ raw.issued = <<>>
           /\ raw.after = raw.before

\* 65 entries in the GET direction over a driver that would have written them.
C7_Witness ==
    /\ Called /\ raw.count = DTV_IOCTL_MAX_MSGS + 1 /\ ~raw.set
    /\ raw.answer.errno = 0 /\ raw.ret = Err(TooManyParameters)

\* C8: with 1 <= count <= DTV_IOCTL_MAX_MSGS the call is not refused and
\* issues exactly one ioctl, of the direction asked for, with num = count;
\* every ioctl issued carries 0 < num <= DTV_IOCTL_MAX_MSGS.
C8_OneIoctl ==
    Called =>
        /\ (raw.count >= 1 /\ raw.count <= DTV_IOCTL_MAX_MSGS)
              => /\ raw.ret # Err(TooManyParameters)
                 /\ raw.issued =
                      <<[request |-> IF raw.set THEN "FE_SET_PROPERTY"
                                     ELSE "FE_GET_PROPERTY",
                         num |-> raw.count]>>
        /\ \A i \in DOMAIN raw.issued :
              raw.issued[i].num > 0 /\ raw.issued[i].num <= DTV_IOCTL_MAX_MSGS

\* Exactly 64 settings, sent by one set-property ioctl.
C8_Witness ==
    /\ Called /\ raw.count = DTV_IOCTL_MAX_MSGS /\ raw.set
    /\ Len(raw.issued) = 1 /\ raw.issued[1].num = DTV_IOCTL_MAX_MSGS
    /\ raw.ret = Ok(Unit)

\* C9: when the ioctl issued fails with errno e the call returns
\* GetProperty(e) for a GET and SetProperty(e) for a SET, e unchanged, and
\* the ioctl is issued once only.
C9_ErrnoVerbatim ==
    Called =>
        /\ Len(raw.issued) <= 1
        /\ (raw.issued # <<>> /\ raw.answer.errno # 0)
              => /\ raw.ret = Err([error |-> IF raw.set THEN "SetProperty" ELSE "GetProperty",
                                   errno |-> raw.answer.errno])
                 /\ raw.after = raw.before

C9_Witness ==
    /\ Called /\ raw.set /\ raw.answer.errno = 16 /\ Len(raw.issued) = 1
    /\ raw.ret = Err(SetProperty(16))

PropertyErrors == {"TooManyParameters", "GetProperty", "SetProperty"}
DtvErrors == {"NotRan", "Reported"}

\* C10: the two channels stay apart. A batch whose ioctl succeeded returns
\* Ok(()) whatever the results of its entries; a failure of the batch is a
\* PropertyError; a failing entry shows as Reported from retrieve, and
\* retrieve fails with NotRan or Reported only.
C10_Channels ==
    /\ (sys # NoOutcome /\ sys.errno = 0) => ret = Ok(Unit)
    /\ (sys # NoOutcome /\ sys.errno # 0) => ret = Err(GetProperty(sys.errno))
    /\ ret.kind = "Err" => ret.err.error \in PropertyErrors
    /\ \A h \in Handles :
          /\ outcome[h].kind = "Err" => outcome[h].err.error \in DtvErrors
          /\ (outcome[h].kind = "Err" /\ outcome[h].err.error = "Reported")
                => (memory[h].some /\ Slot(h).result < 0
                    /\ outcome[h].err.code = Slot(h).result)
          /\ (memory[h].some /\ Slot(h).result < 0 /\ Consumed(h))
                => outcome[h] = Err(Reported(Slot(h).result))

\* The last batch returned Ok(()) and left a failing entry, retrieved as
\* Reported.
C10_Witness ==
    /\ ret = Ok(Unit) /\ sys # NoOutcome /\ sys.errno = 0
    /\ \E h \in Handles :
          /\ Consumed(h) /\ memory[h].some /\ Slot(h).result < 0
          /\ outcome[h] = Err(Reported(Slot(h).result))

\* C11: after a SET transaction whose ioctl completed, a negative result of
\* a submitted entry is handed to the caller as Reported(code): the call
\* returns that error.
C11_SetReported ==
    (Called /\ raw.set /\ raw.issued # <<>> /\ raw.answer.errno = 0)
        => \A i \in 1..raw.count :
              raw.after[i].result < 0
                  => raw.ret = Err(Reported(raw.after[i].result))

Started == raw.op = "start"
FilterSet == raw.op = "set_pes_filter"

\* C12: start maps the errno of a failing ioctl: EBUSY to Conflicting,
\* EINVAL to InvalidArgument, every other errno e to Undefined(e) with e
\* itself; every errno is mapped, and a successful ioctl yields Ok(()).
C12_StartMapping ==
    Started =>
        /\ raw.errno = 0 => raw.ret = [kind |-> "Ok", value |-> <<>>]
        /\ raw.errno # 0 => raw.ret.kind = "Err"
        /\ raw.errno = 16 => raw.ret.err = [error |-> "Conflicting"]
        /\ raw.errno = 22 => raw.ret.err = [error |-> "InvalidArgument"]
        /\ raw.errno \notin {0, 16, 22}
              => raw.ret.err = [error |-> "Undefined", errno |-> raw.errno]

\* The three arms and the success met: EIO carried through as Undefined(5).
C12_Witness ==
    Started /\ raw.errno = 5 /\ raw.ret = Err(Undefined(5))

\* C13 as stated: on set_pes_filter as on start, EINVAL is surfaced as the
\* named argument-rejected condition, not as the variant wrapping the raw
\* code, and EBUSY as the named resource conflict.
C13_SetPesNamed ==
    (Started \/ FilterSet) =>
        /\ raw.errno = 22 => raw.ret = Err([error |-> "InvalidArgument"])
        /\ raw.errno = 16 => raw.ret = Err([error |-> "Conflicting"])

\* C13 amended: set_pes_filter names EBUSY only (Conflicting); EINVAL, like
\* every other errno, comes back as Undefined carrying the raw code. Only
\* start names EINVAL (InvalidArgument).
C13_SetPesMapping ==
    /\ FilterSet =>
          /\ raw.errno = 0 => raw.ret = [kind |-> "Ok", value |-> <<>>]
          /\ raw.errno = 16 => raw.ret = Err([error |-> "Conflicting"])
          /\ raw.errno \notin {0, 16}
                => raw.ret = Err([error |-> "Undefined", errno |-> raw.errno])
    /\ (Started /\ raw.errno = 22) => raw.ret = Err([error |-> "InvalidArgument"])

C13_Witness ==
    FilterSet /\ raw.errno = 22 /\ raw.ret = Err(Undefined(22))

StatDecoded == raw.op = "StatResult::from"

\* C14: StatResult::from gives a result for each of the four scale tags, the
\* same for the same input: NOT_AVAILABLE gives None, DECIBEL the sample as
\* the signed reading Value(Decibel), RELATIVE the sample as the unsigned
\* reading Value(Relative), COUNTER the sample as Count; the eight bytes of
\* the sample come back unchanged.
C14_StatResult ==
    StatDecoded =>
        /\ raw.ret # [kind |-> "panic"]
        /\ raw.scale = 0 => raw.ret = [some |-> FALSE]
        /\ raw.scale = 1 =>
              raw.ret = [some |-> TRUE,
                         v |-> [stat |-> "Value",
                                value |-> [unit |-> "Decibel", svalue |-> raw.raw_value]]]
        /\ raw.scale = 2 =>
              raw.ret = [some |-> TRUE,
                         v |-> [stat |-> "Value",
                                value |-> [unit |-> "Relative", uvalue |-> raw.raw_value]]]
        /\ raw.scale = 3 =>
              raw.ret = [some |-> TRUE, v |-> [stat |-> "Count", count |-> raw.raw_value]]

\* A decibel sample with the sign bit set (-1000) kept bit for bit.
C14_Witness ==
    /\ StatDecoded /\ raw.scale = 1
    /\ raw.raw_value = <<24, 252, 255, 255, 255, 255, 255, 255>>
    /\ raw.ret.some /\ raw.ret.v.stat = "Value" /\ raw.ret.v.value.unit = "Decibel"
    /\ raw.ret.v.value.svalue = <<24, 252, 255, 255, 255, 255, 255, 255>>

PayloadDecoded == raw.op = "from_property"

\* C15: a statistics payload whose scale tag byte is none of 0..3 makes the
\* decoders of SignalStrength and of TotalBlockCount panic; it is not
\* turned into None, a value or a count.
C15_UnknownTag ==
    (PayloadDecoded /\ raw.type \in {"SignalStrength", "TotalBlockCount"}
       /\ raw.u[1] \notin 0..3)
        => raw.ret = [kind |-> "panic"]

\* One statistic, of tag 4, handed to the decoder of SignalStrength.
C15_Witness ==
    /\ PayloadDecoded /\ raw.type = "SignalStrength"
    /\ raw.u[0] = 1 /\ raw.u[1] = 4 /\ raw.ret = Panic

\* The u32 len of the payload decoded is at most the size of the array.
LenWithinBuffer ==
    /\ raw.u[BufferLenOffset + 1] = 0 /\ raw.u[BufferLenOffset + 2] = 0
    /\ raw.u[BufferLenOffset + 3] = 0 /\ raw.u[BufferLenOffset] <= 32

\* The first len bytes of the buffer of the payload decoded.
BufferPrefix ==
    LET n == raw.u[BufferLenOffset]
    IN  [i \in 1..n |-> raw.u[i - 1]]

\* C16: the decoder of EnumerateDeliverySystems yields the delivery systems
\* named by the first len bytes of the buffer, each once, iterated in
\* ascending order of identifier whatever the order of the bytes: [3,4,5]
\* and [5,3,4,3] both iterate as 3,4,5.
C16_DeliverySystems ==
    (PayloadDecoded /\ raw.type = "EnumerateDeliverySystems" /\ LenWithinBuffer
       /\ \A i \in DOMAIN BufferPrefix : BufferPrefix[i] \in 0..19)
        => /\ raw.ret.kind = "value"
           /\ {raw.ret.v[k] : k \in DOMAIN raw.ret.v}
                = {BufferPrefix[i] : i \in DOMAIN BufferPrefix}
           /\ \A j, k \in DOMAIN raw.ret.v : j < k => raw.ret.v[j] < raw.ret.v[k]
           /\ BufferPrefix \in {<<3, 4, 5>>, <<5, 3, 4, 3>>} => raw.ret.v = <<3, 4, 5>>

\* The bytes 5,3,4,3 decoded to 3,4,5.
C16_Witness ==
    /\ PayloadDecoded /\ raw.type = "EnumerateDeliverySystems"
    /\ BufferPrefix = <<5, 3, 4, 3>>
    /\ raw.ret.kind = "value" /\ raw.ret.v = <<3, 4, 5>>

\* C17: the payload of set::Frequency::new(f).property() decoded by
\* get::Frequency::from_property gives f back, for every frequency f, and
\* the setting and the query carry the same command, DTV_FREQUENCY.
C17_RoundTrip ==
    raw.op = "round_trip"
        => /\ raw.ret.kind = "value" /\ raw.ret.v = raw.frequency
           /\ raw.entry.cmd = 3 /\ raw.command = raw.entry.cmd

\* 474 MHz, a frequency with all four bytes in use.
C17_Witness ==
    /\ raw.op = "round_trip" /\ raw.frequency = <<128, 170, 64, 28>>
    /\ raw.ret.v = <<128, 170, 64, 28>>

PropertyBuilt == raw.op = "property"

\* The command each setting type is sent under.
CommandOfSetting ==
    [S \in SettingTypes |->
        CASE S = "Tune" -> 1
          [] S = "Clear" -> 2
          [] S = "Frequency" -> 3
          [] S = "Modulation" -> 4
          [] S = "BandwidthHz" -> 5
          [] S = "Inversion" -> 6
          [] S = "InnerFec" -> 9
          [] S = "DeliverySystem" -> 17
          [] S = "CodeRateHp" -> 36
          [] S = "CodeRateLp" -> 37
          [] S = "GuardInterval" -> 38]

\* The scalar member of the entry built.
BuiltData == <<raw.ret.u[0], raw.ret.u[1], raw.ret.u[2], raw.ret.u[3]>>

\* C18: property() of every setting type gives one entry that depends on
\* the setting alone: cmd is the command of the type, the three reserved
\* words and result are 0, and the scalar payload is the value of the
\* setting: the numeric id for the settings holding an enum, the frequency
\* for Frequency, a width in Hz between 1 and 10 MHz for BandwidthHz, 0 for
\* Tune and Clear.
C18_SettingEntry ==
    PropertyBuilt =>
        /\ raw.ret.cmd = CommandOfSetting[raw.type]
        /\ raw.ret.reserved = <<0, 0, 0>>
        /\ raw.ret.result = 0
        /\ raw.type \in {"Tune", "Clear"} => BuiltData = <<0, 0, 0, 0>>
        /\ raw.type = "Frequency" => BuiltData = raw.value
        /\ raw.type \in {"Modulation", "Inversion", "InnerFec", "DeliverySystem",
                         "CodeRateHp", "CodeRateLp", "GuardInterval"}
              => BuiltData = <<raw.value, 0, 0, 0>>
        /\ raw.type = "BandwidthHz"
              => /\ BuiltData[4] = 0
                 /\ BuiltData[1] + 256 * BuiltData[2] + 65536 * BuiltData[3]
                      \in 1000000..10000000

\* DeliverySystem(DVBT): the id 3 under DTV_DELIVERY_SYSTEM.
C18_Witness ==
    /\ PropertyBuilt /\ raw.type = "DeliverySystem" /\ raw.value = 3
    /\ raw.ret.cmd = 17 /\ BuiltData = <<3, 0, 0, 0>>

\* The width in Hz the claim gives for each named channel width.
NamedWidthHz ==
    [w \in {"_1_172MHz", "_5MHz", "_6MHz", "_7MHz", "_8MHz", "_10MHz"} |->
        CASE w = "_1_172MHz" -> 1172000
          [] w = "_5MHz" -> 5000000
          [] w = "_6MHz" -> 6000000
          [] w = "_7MHz" -> 7000000
          [] w = "_8MHz" -> 8000000
          [] w = "_10MHz" -> 10000000]

\* C19: BandwidthHz encodes each named width as that width in Hz under
\* DTV_BANDWIDTH_HZ: 1.172 MHz as 1172000, 5 MHz as 5000000, 6 MHz as
\* 6000000, 7 MHz as 7000000, 8 MHz as 8000000, 10 MHz as 10000000.
C19_BandwidthTable ==
    (PropertyBuilt /\ raw.type = "BandwidthHz")
        => /\ raw.ret.cmd = 5
           /\ BuiltData[1] + 256 * BuiltData[2] + 65536 * BuiltData[3] = NamedWidthHz[raw.value]
           /\ BuiltData[4] = 0

Compared == raw.op = "partial_cmp"

\* A 64-bit sample as three numbers: its bits 48..63, 24..47 and 0..23.
SampleHigh(v) == v[7] + 256 * v[8]
SampleMiddle(v) == v[4] + 256 * v[5] + 65536 * v[6]
SampleLow(v) == v[1] + 256 * v[2] + 65536 * v[3]

\* The comparison of two samples as unsigned 64-bit numbers.
UnsignedOrdering(a, b) ==
    IF a = b THEN "Equal"
    ELSE IF \/ SampleHigh(a) < SampleHigh(b)
            \/ /\ SampleHigh(a) = SampleHigh(b)
               /\ \/ SampleMiddle(a) < SampleMiddle(b)
                  \/ /\ SampleMiddle(a) = SampleMiddle(b)
                     /\ SampleLow(a) < SampleLow(b)
    THEN "Less"
    ELSE "Greater"

\* C20: partial_cmp of two Relative readings a and b is Some of the
\* comparison of a and b as unsigned numbers; partial_cmp of a Decibel and
\* a Relative reading, in either order, is None.
C20_RelativeOrder ==
    Compared =>
        /\ (raw.self.unit = "Relative" /\ raw.other.unit = "Relative")
              => raw.ret = [some |-> TRUE,
                            ordering |-> UnsignedOrdering(raw.self.uvalue, raw.other.uvalue)]
        /\ raw.self.unit # raw.other.unit => raw.ret = [some |-> FALSE]

\* 2^63 against 7: greater as unsigned numbers.
C20_Witness ==
    /\ Compared
    /\ raw.self = Relative(<<0, 0, 0, 0, 0, 0, 0, 128>>)
    /\ raw.other = Relative(<<7, 0, 0, 0, 0, 0, 0, 0>>)
    /\ raw.ret = SomeOrdering(Greater)

SignalCompared == raw.op = "SignalStrength::partial_cmp"

\* C21: two decibel readings are incomparable: partial_cmp of
\* ValueStat::Decibel(a) and ValueStat::Decibel(b), directly or through
\* SignalStrength, gives None for every a and b, as a comparison across
\* kinds does.
C21_DecibelIncomparable ==
    /\ (Compared /\ raw.self.unit = "Decibel" /\ raw.other.unit = "Decibel")
          => raw.ret = [some |-> FALSE]
    /\ (SignalCompared /\ raw.self.some /\ raw.other.some
          /\ raw.self.v.unit = "Decibel" /\ raw.other.v.unit = "Decibel")
          => raw.ret = [some |-> FALSE]

\* C27: the ordering of SignalStrength agrees with its equality: for two
\* values that are not both decibel readings, a == b exactly when
\* partial_cmp(a, b) is Some(Equal), two unavailable readings included; and
\* an unavailable reading is strictly below every available one.
C27_OrderMatchesEq ==
    (SignalCompared
       /\ ~(raw.self.some /\ raw.other.some
            /\ raw.self.v.unit = "Decibel" /\ raw.other.v.unit = "Decibel"))
        => /\ raw.eq <=> raw.ret = [some |-> TRUE, ordering |-> "Equal"]
           /\ (~raw.self.some /\ raw.other.some)
                 => raw.ret = [some |-> TRUE, ordering |-> "Less"]
           /\ (raw.self.some /\ ~raw.other.some)
                 => raw.ret = [some |-> TRUE, ordering |-> "Greater"]

\* C22: a statistics payload of length 1 tagged "not available" decodes to
\* "no value" (SignalStrength(None), TotalBlockCount(None)), which is not
\* the reading zero: a relative sample 0 decodes to
\* SignalStrength(Some(Relative(0))) and a counter sample 0 to
\* TotalBlockCount(Some(0)).
C22_UnavailableIsNotZero ==
    (PayloadDecoded /\ raw.type \in {"SignalStrength", "TotalBlockCount"}
       /\ raw.u[0] = 1)
        => /\ raw.u[1] = 0
                => /\ raw.ret = [kind |-> "value", type |-> raw.type, v |-> [some |-> FALSE]]
                   /\ raw.ret.v # [some |-> TRUE, v |-> <<0, 0, 0, 0, 0, 0, 0, 0>>]
           /\ (raw.type = "SignalStrength" /\ raw.u[1] = 2
                 /\ \A j \in 2..9 : raw.u[j] = 0)
                => raw.ret = [kind |-> "value", type |-> "SignalStrength",
                              v |-> [some |-> TRUE,
                                     v |-> [unit |-> "Relative",
                                            uvalue |-> <<0, 0, 0, 0, 0, 0, 0, 0>>]]]
           /\ (raw.type = "TotalBlockCount" /\ raw.u[1] = 3
                 /\ \A j \in 2..9 : raw.u[j] = 0)
                => raw.ret = [kind |-> "value", type |-> "TotalBlockCount",
                              v |-> [some |-> TRUE, v |-> <<0, 0, 0, 0, 0, 0, 0, 0>>]]

\* An unavailable counter whose sample bytes are 0, decoded to None.
C22_Witness ==
    /\ PayloadDecoded /\ raw.type = "TotalBlockCount"
    /\ raw.u[0] = 1 /\ raw.u[1] = 0 /\ \A j \in 2..9 : raw.u[j] = 0
    /\ raw.ret.kind = "value" /\ ~raw.ret.v.some

\* C23: a statistics payload whose len is not exactly 1 (0, 2, 3, 4 or
\* more) makes both decoders fail: it is never decoded into a reading or
\* into "no value", and that whatever the scale tag is, a known tag or not.
C23_LengthNotOne ==
    (PayloadDecoded /\ raw.type \in {"SignalStrength", "TotalBlockCount"}
       /\ raw.u[0] # 1)
        => raw.ret = [kind |-> "panic"]

\* Two statistics, the first a well-formed relative reading, refused.
C23_Witness ==
    /\ PayloadDecoded /\ raw.type = "SignalStrength"
    /\ raw.u[0] = 2 /\ raw.u[1] = 2 /\ raw.ret = Panic

\* C24: a sample of the wrong kind is no runtime result: SignalStrength
\* decoding a counter-tagged sample, and TotalBlockCount decoding a
\* decibel- or relative-tagged sample, panic; they return no value and no
\* None.
C24_KindMismatch ==
    (PayloadDecoded /\ raw.u[0] = 1
       /\ \/ raw.type = "SignalStrength" /\ raw.u[1] = 3
          \/ raw.type = "TotalBlockCount" /\ raw.u[1] \in {1, 2})
        => raw.ret = [kind |-> "panic"]

\* A relative reading of 7 handed to the decoder of TotalBlockCount.
C24_Witness ==
    /\ PayloadDecoded /\ raw.type = "TotalBlockCount"
    /\ raw.u[0] = 1 /\ raw.u[1] = 2 /\ raw.u[2] = 7 /\ raw.ret = Panic

\* C28: the decoder of EnumerateDeliverySystems reads exactly the first len
\* bytes of the 32-byte buffer: every system it yields is one of them, so
\* the bytes from index len on contribute nothing, and len = 0 yields the
\* empty set; a len above 32, or a byte among the first len that is no
\* identifier 0..19, makes it panic, and no partial set is returned.
C28_ExactlyLenBytes ==
    (PayloadDecoded /\ raw.type = "EnumerateDeliverySystems")
        => IF LenWithinBuffer /\ \A i \in DOMAIN BufferPrefix : BufferPrefix[i] \in 0..19
           THEN /\ raw.ret.kind = "value"
                /\ {raw.ret.v[k] : k \in DOMAIN raw.ret.v}
                     = {BufferPrefix[i] : i \in DOMAIN BufferPrefix}
                /\ raw.u[BufferLenOffset] = 0 => raw.ret.v = <<>>
           ELSE raw.ret = [kind |-> "panic"]

\* A len of 33 over a buffer of 32 well-formed bytes, refused.
C28_Witness ==
    /\ PayloadDecoded /\ raw.type = "EnumerateDeliverySystems"
    /\ raw.u[BufferLenOffset] = 33 /\ raw.u[BufferLenOffset + 1] = 0
    /\ \A i \in 0..31 : raw.u[i] \in 0..19
    /\ raw.ret = Panic

\* A step in which desc() is called.
DescStep == raw' # raw /\ raw'.op = "desc"

\* C25: desc() executes nothing and changes nothing: it yields the command
\* of T together with access to the handle's own slot, and the call leaves
\* every slot, every handle and the outcome of the last batch as they were;
\* so a handle described any number of times without a batch still has
\* memory = None, and a submitted handle keeps its filled slot.
C25_DescChangesNothing ==
    /\ [][DescStep =>
            /\ raw'.d.command = (IF htype[raw'.handle] = "Frequency"
                                 THEN DTV_FREQUENCY ELSE DTV_STAT_SIGNAL_STRENGTH)
            /\ raw'.d.property = raw'.handle
            /\ memory' = memory /\ filled' = filled
            /\ hstate' = hstate /\ htype' = htype
            /\ outcome' = outcome /\ ret' = ret /\ sys' = sys]_vars
    /\ [](\A h \in Handles : (hstate[h] = "live" /\ ~filled[h]) => memory[h] = None)

\* A submitted handle described twice, its filled slot still in place.
C25_Witness ==
    /\ raw.op = "desc" /\ raw.times = 2
    /\ filled[raw.handle] /\ raw.before.some /\ memory[raw.handle] = raw.before

\* The slot of caller c holds what the transaction of c obtained: the entry
\* of its own command, with the payload and the result the driver stored in
\* answer to the call of c.
OwnAnswer(c) ==
    LET cmd == IF c = 1 THEN DTV_STAT_SIGNAL_STRENGTH ELSE DTV_FREQUENCY
        w == raw.answer[c].writes[1]
    IN  /\ raw.stored[c] = [kind |-> "stored", entryby |-> c, databy |-> c]
        /\ memory[c].some
        /\ memory[c].property.cmd = cmd
        /\ memory[c].property.result = w.result
        /\ memory[c].property.u = Overlay(new_empty(cmd).u, KernelPayloads[cmd][w.payload])

\* C26: nothing in get_set_properties_raw orders two batch calls. With the
\* callers taking turns, one transaction at a time, every filled slot holds
\* the answer to its own transaction; a slot holding an entry, a payload or
\* a result of the other caller's transaction occurs only when the callers
\* run over the shared buffer unordered (the state C26_Witness, reachable).
C26_SerialisedIsolation ==
    raw.op = "shared" =>
        \A c \in Callers : (raw.serialised /\ filled[c]) => OwnAnswer(c)

\* Unordered callers: the slot of the SignalStrength query holds the
\* Frequency entry of the other caller, filled by the other caller's call.
C26_Witness ==
    /\ raw.op = "shared" /\ ~raw.serialised
    /\ filled[1] /\ memory[1].property.cmd = DTV_FREQUENCY
    /\ raw.stored[1].entryby = 2 /\ raw.stored[1].databy = 2
    /\ memory[1].property.u = Overlay(new_empty(DTV_FREQUENCY).u,
                                      KernelPayloads[DTV_FREQUENCY][1])

====
